---- MODULE Spec2Model ----
(***************************************************************************)
(* Game Deal Hunter: the deal classifier (src/src/deal_analyzer.py), the   *)
(* SQLite store (src/src/database.py), the source merge                    *)
(* (src/src/api_clients.py) and the watchlist reconciliation run           *)
(* (src/src/watchlist.py).                                                 *)
(*                                                                         *)
(* Money is carried as an integer number of cents c; it stands for the     *)
(* Python float nearest to c/100 (what float("9.49") yields).  Discounts   *)
(* are carried in tenths of a percent.  Comparisons of two such values are *)
(* exact on the integers; the one place where the code does float          *)
(* arithmetic on prices (price_diff_percent) is computed in IEEE-754       *)
(* binary64 below.                                                         *)
(***************************************************************************)
EXTENDS Integers, Sequences, FiniteSets, TLC

(***************************************************************************)
(* Natural numbers of any size: little-endian sequences of limbs, no       *)
(* leading zero limb, <<>> is 0.                                           *)
(***************************************************************************)
LimbBase == 2^20
LimbBits == 10 + 10

RECURSIVE BigFromNat(_)
BigFromNat(n) == IF n = 0 THEN <<>> ELSE <<n % LimbBase>> \o BigFromNat(n \div LimbBase)

RECURSIVE BigNorm(_)
BigNorm(a) ==
    IF a = <<>> THEN <<>>
    ELSE IF a[Len(a)] = 0 THEN BigNorm(SubSeq(a, 1, Len(a) - 1)) ELSE a

BigLimb(a, i) == IF i <= Len(a) THEN a[i] ELSE 0

RECURSIVE BigCmpFrom(_, _, _)
BigCmpFrom(a, b, i) ==
    IF i = 0 THEN 0
    ELSE IF a[i] < b[i] THEN -1
    ELSE IF a[i] > b[i] THEN 1
    ELSE BigCmpFrom(a, b, i - 1)

\* -1, 0, 1 as a < b, a = b, a > b
BigCmp(a, b) ==
    IF Len(a) < Len(b) THEN -1
    ELSE IF Len(a) > Len(b) THEN 1
    ELSE BigCmpFrom(a, b, Len(a))

RECURSIVE BigAddFrom(_, _, _, _)
BigAddFrom(a, b, i, carry) ==
    IF i > Len(a) /\ i > Len(b)
    THEN (IF carry = 0 THEN <<>> ELSE <<carry>>)
    ELSE LET s == BigLimb(a, i) + BigLimb(b, i) + carry
         IN  <<s % LimbBase>> \o BigAddFrom(a, b, i + 1, s \div LimbBase)

BigAdd(a, b) == BigAddFrom(a, b, 1, 0)

RECURSIVE BigSubFrom(_, _, _, _)
BigSubFrom(a, b, i, borrow) ==
    IF i > Len(a) THEN <<>>
    ELSE LET s == a[i] - BigLimb(b, i) - borrow
         IN  IF s < 0
             THEN <<s + LimbBase>> \o BigSubFrom(a, b, i + 1, 1)
             ELSE <<s>> \o BigSubFrom(a, b, i + 1, 0)

\* a - b, for a >= b
BigSub(a, b) == BigNorm(BigSubFrom(a, b, 1, 0))

RECURSIVE BigMulSmallFrom(_, _, _, _)
BigMulSmallFrom(a, k, i, carry) ==
    IF i > Len(a)
    THEN (IF carry = 0 THEN <<>> ELSE <<carry>>)
    ELSE LET s == a[i] * k + carry
         IN  <<s % LimbBase>> \o BigMulSmallFrom(a, k, i + 1, s \div LimbBase)

\* a * k, for 0 < k < 2^10
BigMulSmall(a, k) == BigMulSmallFrom(a, k, 1, 0)

RECURSIVE BigShiftLeft(_, _)
BigShiftLeft(a, k) ==
    IF k = 0 \/ a = <<>> THEN a
    ELSE IF k >= LimbBits THEN <<0>> \o BigShiftLeft(a, k - LimbBits)
    ELSE BigShiftLeft(BigMulSmall(a, 2), k - 1)

RECURSIVE NatBitLen(_)
NatBitLen(n) == IF n = 0 THEN 0 ELSE 1 + NatBitLen(n \div 2)

BigBitLen(a) == IF a = <<>> THEN 0 ELSE (Len(a) - 1) * LimbBits + NatBitLen(a[Len(a)])

\* bit i of a, bit 0 the least significant
BigBit(a, i) == (BigLimb(a, (i \div LimbBits) + 1) \div 2^(i % LimbBits)) % 2

BigIsOdd(a) == a # <<>> /\ a[1] % 2 = 1

\* one step of schoolbook binary long division: q2 and r2 are the quotient and
\* the remainder so far, shifted left with the next bit of the dividend in r2
BigDivModStep(d, q2, r2) ==
    IF BigCmp(r2, d) >= 0
    THEN [q |-> BigAdd(q2, <<1>>), r |-> BigSub(r2, d)]
    ELSE [q |-> q2, r |-> r2]

\* the division continued over bits hi down to lo of n, qr the result so far;
\* the range is halved to keep the evaluation shallow
RECURSIVE BigDivModBits(_, _, _, _, _)
BigDivModBits(n, d, hi, lo, qr) ==
    IF Len(qr.q) < 0 \/ hi < lo THEN qr
    ELSE IF hi = lo
    THEN BigDivModStep(d, BigMulSmall(qr.q, 2),
                       BigAdd(BigMulSmall(qr.r, 2), BigFromNat(BigBit(n, hi))))
    ELSE BigDivModBits(n, d, (hi + lo) \div 2, lo,
                       BigDivModBits(n, d, hi, ((hi + lo) \div 2) + 1, qr))

\* [q, r] with n = q * d + r and 0 <= r < d, for d > 0
BigDivMod(n, d) == BigDivModBits(n, d, BigBitLen(n) - 1, 0, [q |-> <<>>, r |-> <<>>])

\* [q, r] with n * 2^k = q * d + r and 0 <= r < d: the division of n, continued
\* over k zero bits; a dividend no longer than the divisor needs one step
BigZeroBits(qr, d, k) == BigDivModBits(<<>>, d, k - 1, 0, qr)

BigDivModShifted(n, d, k) ==
    IF BigBitLen(n) <= BigBitLen(d)
    THEN BigZeroBits(BigDivModStep(d, <<>>, n), d, k)
    ELSE BigZeroBits(BigDivMod(n, d), d, k)

\* [q, r] with n = q * 2^j + r and 0 <= r < 2^j, for 0 < j < LimbBits
BigDivModPow2(n, j) ==
    [q |-> BigNorm([i \in 1..Len(n) |->
                      (n[i] \div 2^j) + (BigLimb(n, i + 1) % 2^j) * 2^(LimbBits - j)]),
     r |-> BigFromNat(BigLimb(n, 1) % 2^j)]

(***************************************************************************)
(* IEEE-754 binary64 (the Python float), positive normal numbers and zero: *)
(* [m, e] is m * 2^e with 2^52 <= m < 2^53, zero is m = <<>>.  Every       *)
(* operation is the exact result rounded to nearest, ties to even.         *)
(***************************************************************************)
DblMantBits == 50 + 3

DblZero == [m |-> <<>>, e |-> 0]

DblPow2(k) == BigShiftLeft(<<1>>, k)

\* round the quotient qr of a division by dd to nearest, ties to even; e is
\* the exponent of the quotient's last bit
DblNearest(qr, dd, e) ==
    LET c  == BigCmp(BigMulSmall(qr.r, 2), dd)
        up == c > 0 \/ (c = 0 /\ BigIsOdd(qr.q))
        m  == IF up THEN BigAdd(qr.q, <<1>>) ELSE qr.q
    IN  IF BigBitLen(m) > DblMantBits
        THEN [m |-> DblPow2(DblMantBits - 1), e |-> e + 1]
        ELSE [m |-> m, e |-> e]

\* n * 2^k / d rounded to a 53-bit mantissa, for the k that leaves 53 bits
\* before the point
DblScaledDiv(n, d, k, e) ==
    IF k >= 0 /\ d = <<1>>
    THEN [m |-> BigShiftLeft(n, k), e |-> e - k]
    ELSE IF k >= 0
    THEN DblNearest(BigDivModShifted(n, d, k), d, e - k)
    ELSE IF d = <<1>> /\ 0 - k < LimbBits
    THEN DblNearest(BigDivModPow2(n, 0 - k), DblPow2(0 - k), e - k)
    ELSE DblNearest(BigDivMod(n, BigShiftLeft(d, 0 - k)), BigShiftLeft(d, 0 - k), e - k)

\* the number of bits of floor(n / d), for n >= d: bn - bd, and one more when
\* n is at least d shifted to n's length
DblQuotBits(n, d, bn, bd) ==
    IF bn >= bd
    THEN (IF BigCmp(n, BigShiftLeft(d, bn - bd)) >= 0 THEN bn - bd + 1 ELSE bn - bd)
    ELSE (IF BigCmp(BigShiftLeft(n, bd - bn), d) >= 0 THEN bn - bd + 1 ELSE bn - bd)

\* the double nearest to n / d * 2^e
DblRound(n, d, e) ==
    IF n = <<>> THEN DblZero
    ELSE DblScaledDiv(n, d, DblMantBits - DblQuotBits(n, d, BigBitLen(n), BigBitLen(d)), e)

\* float("<c/100 with two decimals>")
DblFromCents(c) == DblRound(BigFromNat(c), BigFromNat(100), 0)

DblAligned(xm, ym, e) ==
    IF BigCmp(xm, ym) >= 0
    THEN DblRound(BigSub(xm, ym), <<1>>, e)
    ELSE DblRound(BigSub(ym, xm), <<1>>, e)

\* abs(x - y)
DblAbsSub(x, y) ==
    IF x.m = <<>> THEN y
    ELSE IF y.m = <<>> THEN x
    ELSE IF x.e < y.e
    THEN DblAligned(x.m, BigShiftLeft(y.m, y.e - x.e), x.e)
    ELSE DblAligned(BigShiftLeft(x.m, x.e - y.e), y.m, y.e)

\* x / y, for y > 0
DblDiv(x, y) == DblRound(x.m, y.m, x.e - y.e)

\* x * k for an integer 0 < k < 2^10 (an int operand converts exactly)
DblMulNat(x, k) == DblRound(BigMulSmall(x.m, k), <<1>>, x.e)

\* x <= k for a natural k
DblLeqNat(x, k) ==
    IF x.m = <<>> THEN TRUE
    ELSE IF x.e >= 0 THEN BigCmp(BigShiftLeft(x.m, x.e), BigFromNat(k)) <= 0
    ELSE BigCmp(x.m, BigShiftLeft(BigFromNat(k), 0 - x.e)) <= 0

(***************************************************************************)
(* Values.  A Python Optional is <<>> (None) or <<v>>.  Titles and store   *)
(* names are sequences of characters, because the code lower-cases and     *)
(* searches them; ids and urls are opaque strings.                         *)
(***************************************************************************)
None == <<>>
Some(v) == <<v>>

\* Python truthiness of an Optional id: neither None nor ""
TruthyId(o) == o # None /\ o[1] # ""

\* Python truthiness of an Optional title or store name: neither None nor empty
TruthyStr(o) == o # None /\ o[1] # <<>>

LowerChar(c) ==
    CASE c = "A" -> "a" [] c = "B" -> "b" [] c = "G" -> "g" [] c = "S" -> "s"
      [] c = "X" -> "x" [] OTHER -> c

\* str.lower()
Lower(str) == [i \in 1..Len(str) |-> LowerChar(str[i])]

\* sub in str
Contains(sub, str) ==
    \E i \in 0..(Len(str) - Len(sub)) : SubSeq(str, i + 1, i + Len(sub)) = sub

MIN_DISCOUNT_FOR_DEAL == 75
PRICE_TOLERANCE_PERCENT == 5

\* a percentage as carried here, in tenths of a percent
Tenths(percent) == percent * 10

VARIABLES
    historical_lows,    \* table historical_lows: rows, UNIQUE(game_id, store)
    watchlist,          \* table watchlist: rows, UNIQUE(game_title, store)
    wl_next_id,         \* the next AUTOINCREMENT id of table watchlist
    price_history,      \* table price_history, in insertion order
    amazing_deals,      \* table amazing_deals, in insertion order
    now,                \* the wall clock read by datetime.now()
    rn_pc,              \* check_all_games: "idle", "fetch", "deals", "touch",
                        \* "done", or "aborted" when an exception left it
    rn_watchlist,       \* its local `watchlist` (the rows get_games returned)
    rn_idx,             \* the position of `item` in it
    rn_deals,           \* the deals of `item` still to process
    rn_results,         \* its local `results`
    rn_fetched,         \* per position, the deals check_game returned
    rn_touched,         \* per update_watchlist_check of the run: the rows written
    rn_persisted,       \* per result: how its add_price_history and
                        \* save_amazing_deal calls ended
    rn_base,            \* the number of rows of amazing_deals when the run began
    n_faults,           \* storage errors so far
    n_adds, n_removes, n_runs,  \* calls made so far
    cl_pc,              \* classifier harness: "ready", "again" or "done"
    cl_deal,            \* the GameDeal under analysis
    cl_game_id,         \* Optional game id passed to analyze_deal
    cl_target,          \* Optional target price passed to analyze_deal
    cl_result,          \* what analyze_deal returned
    cl_first,           \* what the first of the two calls returned
    lw_pc,              \* per caller of the tracker: "idle", "called" or "done"
    lw_args,            \* per caller: the arguments of its update_historical_low
    lw_ret,             \* per caller: what its last call returned
    lw_log,             \* the calls that committed, in commit order
    lw_overlap,         \* the callers' latest calls were in flight together
    mg_pc,              \* merge harness: "ready" or "done"
    mg_query,           \* the title searched for
    mg_store,           \* the Optional store filter of the entry
    mg_cheapshark,      \* what CheapShark answers
    mg_itad,            \* what ITAD answers
    mg_found,           \* what search_game_global returned
    mg_kept,            \* what check_game returned
    st_call,            \* storage harness: the last call of the storage method
    st_before,          \* the table it writes, before that call
    nt_sent,            \* check_and_notify: the notifications sent, in order
    nt_mark,            \* the last call of mark_deal_notified
    n_marks,            \* calls of mark_deal_notified so far
    sc_pc,              \* run_forever: "new", "first_sleep", "cycle", "sleep" or
                        \* "returned"
    sc_running,         \* Scheduler.running
    sc_stopped,         \* stop() was called while run_forever was executing
    sc_cycles,          \* calls of check_and_notify started so far
    sc_outcomes,        \* how the calls of check_and_notify ended, in order
    sc_slept            \* seconds of the last asyncio.sleep that ended

dbVars == <<historical_lows, watchlist, wl_next_id, price_history, amazing_deals, now>>
rnVars == <<rn_pc, rn_watchlist, rn_idx, rn_deals, rn_results, rn_fetched, rn_touched,
            rn_persisted, rn_base, n_adds, n_removes, n_runs, n_faults>>
clVars == <<cl_pc, cl_deal, cl_game_id, cl_target, cl_result, cl_first>>
lwVars == <<lw_pc, lw_args, lw_ret, lw_log, lw_overlap>>
mgVars == <<mg_pc, mg_query, mg_store, mg_cheapshark, mg_itad, mg_found, mg_kept>>
stVars == <<st_call, st_before>>
ntVars == <<nt_sent, nt_mark, n_marks>>
scVars == <<sc_pc, sc_running, sc_stopped, sc_cycles, sc_outcomes, sc_slept>>
vars == <<dbVars, rnVars, clVars, lwVars, mgVars, stVars, ntVars, scVars>>

(***************************************************************************)
(* Database (src/src/database.py)                                          *)
(***************************************************************************)
\* SELECT * FROM historical_lows WHERE game_id = ? AND store = ?
LowRowsFor(game_id, store) ==
    {r \in historical_lows : r.game_id = game_id /\ r.store = store}

\* SELECT * FROM historical_lows WHERE game_id = ? ORDER BY lowest_price ASC
\* LIMIT 1: any row of the least lowest_price (SQLite fixes no order among ties)
LowRowsMin(game_id) ==
    {r \in historical_lows :
        /\ r.game_id = game_id
        /\ \A o \in historical_lows : o.game_id = game_id => r.lowest_price <= o.lowest_price}

\* INSERT OR REPLACE INTO historical_lows ... VALUES (?, ?, ?, ?, datetime.now()):
\* the row that conflicts on UNIQUE(game_id, store) is deleted, the new one inserted
LowsAfterUpdate(lows, game_id, game_title, store, lowest_price, at) ==
    {r \in lows : ~(r.game_id = game_id /\ r.store = store)}
        \cup {[game_id |-> game_id, game_title |-> game_title, store |-> store,
                lowest_price |-> lowest_price, timestamp |-> at]}

\* Database.get_historical_low: the set of rows the call can return, empty when
\* it returns None; `if store` takes the second query for None and for ""
get_historical_low(game_id, store) ==
    IF TruthyStr(store) THEN LowRowsFor(game_id, store[1]) ELSE LowRowsMin(game_id)

(***************************************************************************)
(* DealAnalyzer (src/src/deal_analyzer.py)                                 *)
(***************************************************************************)
\* game_id or deal.deal_id
LookupId(deal, game_id) == IF TruthyId(game_id) THEN game_id[1] ELSE deal.deal_id

\* criterion 1 with the threshold excluded (> for >=)
DeepDiscountStrict(deal) == deal.discount_percent > Tenths(MIN_DISCOUNT_FOR_DEAL)

\* criterion 1: deal.discount_percent >= self.min_discount
DeepDiscount(deal) == deal.discount_percent >= Tenths(MIN_DISCOUNT_FOR_DEAL)

\* abs(deal.price - lowest_price) / lowest_price * 100 <= self.price_tolerance,
\* in float arithmetic
PriceDiffWithin(price, lowest, tolerance) ==
    DblLeqNat(DblMulNat(DblDiv(DblAbsSub(price, lowest), lowest), 100), tolerance)

\* criterion 2, given the row get_historical_low returned
NearHistoricalLow(deal, row) ==
    /\ row.lowest_price > 0
    /\ PriceDiffWithin(DblFromCents(deal.price), DblFromCents(row.lowest_price),
                       PRICE_TOLERANCE_PERCENT)

\* criterion 3 without its `not historical_low`
VeryLowPriceAnyHistory(deal, found) ==
    /\ deal.price < 500
    /\ deal.discount_percent > Tenths(50)

\* criterion 3: not historical_low and deal.price < 5.0 and deal.discount_percent > 50
VeryLowPrice(deal, found) ==
    /\ ~found
    /\ deal.price < 500
    /\ deal.discount_percent > Tenths(50)

Reason(rule, value) == [rule |-> rule, value |-> value]
Separator == Reason(" | ", 0)

\* "".join(reasons): the separator forgotten
JoinNoSeparator(reasons) == reasons

\* " | ".join(reasons)
RECURSIVE Join(_)
Join(reasons) ==
    IF Len(reasons) <= 1 THEN reasons
    ELSE <<Head(reasons), Separator>> \o Join(Tail(reasons))

\* the list `reasons` of is_amazing_deal, given what get_historical_low returned
\* (rows: empty for None, else the one row)
ReasonsFor(deal, rows) ==
    LET r1 == IF DeepDiscount(deal)
              THEN <<Reason("Descuento", deal.discount_percent)>> ELSE <<>>
        r2 == IF \E row \in rows : NearHistoricalLow(deal, row)
              THEN <<Reason("Precio cercano al minimo historico",
                            (CHOOSE row \in rows : TRUE).lowest_price)>>
              ELSE <<>>
        r3 == IF VeryLowPrice(deal, rows # {})
              THEN <<Reason("Precio muy bajo", deal.price)>> ELSE <<>>
    IN  r1 \o r2 \o r3

\* the pair is_amazing_deal returns, from its list of reasons
AmazingFrom(reasons) ==
    IF reasons # <<>>
    THEN [is_amazing |-> TRUE, reason |-> Some(Join(reasons))]
    ELSE [is_amazing |-> FALSE, reason |-> None]

\* DealAnalyzer.is_amazing_deal, with `low` the row (as a set) the lookup gave
is_amazing_deal(deal, low) == AmazingFrom(ReasonsFor(deal, low))

\* check_target_price with the target itself excluded (< for <=)
check_target_price_strict(deal, target_price) == deal.price < target_price

\* DealAnalyzer.check_target_price
check_target_price(deal, target_price) == deal.price <= target_price

\* the dictionary analyze_deal builds from the classifier's pair and the
\* second lookup
AnalysisOf(deal, target_price, amazing, low) ==
    [deal |-> deal,
     is_amazing_deal |-> amazing.is_amazing,
     reason |-> amazing.reason,
     meets_target |-> IF target_price # None
                      THEN Some(check_target_price(deal, target_price[1]))
                      ELSE None,
     historical_low |-> IF low # {}
                        THEN Some([price |-> (CHOOSE r \in low : TRUE).lowest_price,
                                   store |-> (CHOOSE r \in low : TRUE).store,
                                   timestamp |-> (CHOOSE r \in low : TRUE).timestamp])
                        ELSE None]

\* DealAnalyzer.analyze_deal, with `low` what get_historical_low returns for
\* (game_id or deal.deal_id, deal.store); both lookups of one call read the
\* same table
analyze_deal(deal, target_price, low) ==
    AnalysisOf(deal, target_price, is_amazing_deal(deal, low), low)

\* a classifier that records the observed price as the historical low
LowsAfterAnalyzeRecording(lows, deal, game_id) ==
    LowsAfterUpdate(lows, LookupId(deal, game_id), deal.title, deal.store, deal.price, 0)

\* table historical_lows after is_amazing_deal and analyze_deal: they only
\* call self.db.get_historical_low, which only reads
LowsAfterAnalyze(lows, deal, game_id) == lows

(***************************************************************************)
(* Database: watchlist, price_history, amazing_deals                       *)
(***************************************************************************)
\* Database.add_to_watchlist: INSERT OR REPLACE deletes the row that conflicts
\* on UNIQUE(game_title, store) -- a NULL store conflicts with nothing -- and
\* inserts a new row: new id, last_checked NULL, is_active 1
WatchlistAfterAdd(rows, id, game_title, game_id, target_price, store, at) ==
    {r \in rows : ~(r.game_title = game_title /\ store # None /\ r.store = store)}
        \cup {[id |-> id, game_title |-> game_title, game_id |-> game_id,
                target_price |-> target_price, store |-> store, created_at |-> at,
                last_checked |-> None, is_active |-> TRUE]}

\* the WHERE clause shared by remove_from_watchlist and update_watchlist_check:
\* game_title = ? AND store = ? when `store` is truthy, game_title = ? otherwise
WatchlistMatch(r, game_title, store) ==
    /\ r.game_title = game_title
    /\ TruthyStr(store) => r.store = store

\* Database.remove_from_watchlist: UPDATE watchlist SET is_active = 0 WHERE ...
WatchlistAfterRemove(rows, game_title, store) ==
    {IF WatchlistMatch(r, game_title, store) THEN [r EXCEPT !.is_active = FALSE] ELSE r :
        r \in rows}

\* the rows update_watchlist_check writes: WHERE ... AND is_active = 1
WatchlistChecked(rows, game_title, store) ==
    {r \in rows : WatchlistMatch(r, game_title, store) /\ r.is_active}

\* Database.update_watchlist_check: UPDATE watchlist SET last_checked = now WHERE ...
WatchlistAfterCheck(rows, game_title, store, at) ==
    {IF r \in WatchlistChecked(rows, game_title, store)
     THEN [r EXCEPT !.last_checked = Some(at)] ELSE r : r \in rows}

\* ORDER BY created_at DESC
RECURSIVE NewestFirst(_)
NewestFirst(rows) ==
    IF rows = {} THEN <<>>
    ELSE LET r == CHOOSE x \in rows : \A y \in rows : y.created_at <= x.created_at
         IN  <<r>> \o NewestFirst(rows \ {r})

\* Database.get_watchlist
get_watchlist(active_only) ==
    NewestFirst({r \in watchlist : active_only => r.is_active})

\* every row of the table, active or not
get_games_all == get_watchlist(FALSE)

\* WatchlistManager.get_games: self.db.get_watchlist(active_only=True)
get_games == get_watchlist(TRUE)

\* the row add_price_history inserts
HistoryRow(deal, game_id) ==
    [game_id |-> LookupId(deal, game_id), game_title |-> deal.title,
     store |-> deal.store, price |-> deal.price,
     original_price |-> deal.original_price,
     discount_percent |-> deal.discount_percent, deal_id |-> deal.deal_id,
     url |-> deal.url, timestamp |-> deal.timestamp]

\* a plain INSERT, without the OR IGNORE and the UNIQUE constraint
HistoryAfterInsert(history, deal, game_id) == Append(history, HistoryRow(deal, game_id))

\* Database.add_price_history: INSERT OR IGNORE, UNIQUE(game_id, store, timestamp)
HistoryAfterAdd(history, deal, game_id) ==
    IF \E i \in 1..Len(history) :
          /\ history[i].game_id = LookupId(deal, game_id)
          /\ history[i].store = deal.store
          /\ history[i].timestamp = deal.timestamp
    THEN history
    ELSE Append(history, HistoryRow(deal, game_id))

\* Database.save_amazing_deal: INSERT, notified left at its default 0
DealsAfterSave(saved, deal, reason) ==
    Append(saved,
           [game_title |-> deal.title, store |-> deal.store, price |-> deal.price,
            original_price |-> deal.original_price,
            discount_percent |-> deal.discount_percent, url |-> deal.url,
            deal_id |-> deal.deal_id, reason |-> reason, timestamp |-> deal.timestamp,
            notified |-> FALSE])

\* UPDATE amazing_deals SET notified = 1, without the WHERE clause
DealsAfterMarkAll(saved, id) ==
    [k \in 1..Len(saved) |-> [saved[k] EXCEPT !.notified = TRUE]]

\* Database.mark_deal_notified: UPDATE amazing_deals SET notified = 1 WHERE
\* id = ?; the AUTOINCREMENT id of a record is its position in the table
DealsAfterMark(saved, id) ==
    [k \in 1..Len(saved) |->
        IF k = id THEN [saved[k] EXCEPT !.notified = TRUE] ELSE saved[k]]

(***************************************************************************)
(* APIManager.search_game_global (src/src/api_clients.py).  What a source  *)
(* answers is an input: [ok, deals], ok false when its call raised.  The   *)
(* adapters copy title and store from the JSON as they come, so a field    *)
(* can be null.                                                            *)
(***************************************************************************)
\* a JSON null where a string was expected; no string equals it
JsonNull == <<"null">>

\* query_lower in deal.title.lower()
TitleMatches(query, deal) == Contains(Lower(query), Lower(deal.title))

\* the CheapShark loop: a null title raises at deal.title.lower(), inside the
\* try, which ends the loop with what was appended before
RECURSIVE TitleFiltered(_, _)
TitleFiltered(query, deals) ==
    IF deals = <<>> \/ Head(deals).title = JsonNull THEN <<>>
    ELSE IF TitleMatches(query, Head(deals))
    THEN <<Head(deals)>> \o TitleFiltered(query, Tail(deals))
    ELSE TitleFiltered(query, Tail(deals))

\* the deals the CheapShark block appends to all_deals; an exception of
\* get_deals is caught and printed
FromCheapShark(query, out) == IF out.ok THEN TitleFiltered(query, out.deals) ELSE <<>>

\* the deals the ITAD block appends to all_deals; an exception of search_game
\* or get_current_prices is caught and printed
FromItad(out) == IF out.ok THEN out.deals ELSE <<>>

\* the key without the lower-casing
DealKeyExact(deal) == <<deal.title, deal.store>>

\* key = (deal.title.lower(), deal.store.lower())
DealKey(deal) == <<Lower(deal.title), Lower(deal.store)>>

\* computing the key raises AttributeError on a null title or store; the loop
\* is in no try block
KeyRaises(deals) ==
    \E i \in 1..Len(deals) : deals[i].title = JsonNull \/ deals[i].store = JsonNull

\* the loop over all_deals with `seen`
RECURSIVE UniqueDeals(_, _)
UniqueDeals(deals, seen) ==
    IF deals = <<>> THEN <<>>
    ELSE IF DealKey(Head(deals)) \in seen THEN UniqueDeals(Tail(deals), seen)
    ELSE <<Head(deals)>> \o UniqueDeals(Tail(deals), seen \cup {DealKey(Head(deals))})

\* what search_game_global does with all_deals: [raised, deals]
Merged(all_deals) ==
    IF KeyRaises(all_deals) THEN [raised |-> TRUE, deals |-> <<>>]
    ELSE [raised |-> FALSE, deals |-> UniqueDeals(all_deals, {})]

\* APIManager.search_game_global
search_game_global(query, cheapshark, itad) ==
    Merged(FromCheapShark(query, cheapshark) \o FromItad(itad))

(***************************************************************************)
(* WatchlistManager (src/src/watchlist.py)                                 *)
(***************************************************************************)
\* WatchlistManager.check_game, given what search_game_global returned
check_game(store, deals) ==
    IF TruthyStr(store)
    THEN SelectSeq(deals, LAMBDA d : Contains(Lower(store[1]), Lower(d.store)))
    ELSE deals

\* what get_historical_low(game_id or deal.deal_id, deal.store) can return, each
\* as a set: {} for None, {row} for a row
LowLookups(deal, game_id) ==
    IF get_historical_low(LookupId(deal, game_id), Some(deal.store)) = {}
    THEN {{}}
    ELSE {{r} : r \in get_historical_low(LookupId(deal, game_id), Some(deal.store))}

\* analysis["reason"] or "Oferta imperdible"
ReasonOrDefault(reason) ==
    IF reason = None \/ reason = Some(<<>>)
    THEN <<Reason("Oferta imperdible", 0)>>
    ELSE reason[1]

\* the dictionary appended to results
ResultOf(item, deal, analysis) ==
    [watchlist_item |-> item, deal |-> deal, analysis |-> analysis,
     meets_target |-> analysis.meets_target,
     is_amazing_deal |-> analysis.is_amazing_deal]

(***************************************************************************)
(* Sample values                                                           *)
(***************************************************************************)
TitleX == <<"G", "a", "X">>
TitleXLower == <<"g", "a", "x">>
TitleB == <<"B">>
Steam == <<"S", "t">>
SteamLower == <<"s", "t">>
Gog == <<"G", "o">>
SteamDeck == <<"S", "t", "D">>

Deal(title, store, price, original_price, discount, deal_id) ==
    [title |-> title, store |-> store, price |-> price, original_price |-> original_price,
     discount_percent |-> discount, url |-> "u", deal_id |-> deal_id, timestamp |-> 0]

\* Game X at 12.00 from 60.00: 80% off
DealX == Deal(TitleX, Steam, 1200, 6000, 800, "d1")
\* the same game and store as another source spells them
DealXItad == Deal(TitleXLower, SteamLower, 1000, 6000, 833, "i1")
\* a cheap game with a good discount
DealB == Deal(TitleB, Gog, 499, 1250, 600, "d2")
\* Game X at another store, no discount to speak of
DealXGog == Deal(TitleX, Gog, 2000, 2200, 90, "d3")
\* Game X at a store whose name contains the name of another: under a target
\* of 15.00, but no deal to speak of
DealXDeck == Deal(TitleX, SteamDeck, 900, 1000, 100, "d5")
\* a deal whose storeID came as null
DealNoStore == Deal(TitleB, JsonNull, 300, 600, 500, "d4")

Answer(ok, deals) == [ok |-> ok, deals |-> deals]

\* the longest list of deals among a source's answers
DealsOf(answers) ==
    (CHOOSE a \in answers : \A o \in answers : Len(o.deals) <= Len(a.deals)).deals

\* what CheapShark's get_deals can answer (all its deals, whatever the query)
CheapSharkAnswers ==
    {Answer(FALSE, <<>>), Answer(TRUE, <<>>), Answer(TRUE, <<DealX, DealB, DealXGog, DealXDeck>>),
     Answer(TRUE, <<DealNoStore>>)}

\* what ITAD's search_game and get_current_prices can answer for a query
ItadAnswers(query) ==
    {Answer(FALSE, <<>>), Answer(TRUE, <<>>)}
        \cup (IF Lower(query) = TitleXLower THEN {Answer(TRUE, <<DealXItad>>)} ELSE {})

\* the clock readings one fetch can take: one per GameDeal constructed
FetchTicks == Len(DealsOf(CheapSharkAnswers)) + Len(DealsOf(ItadAnswers(TitleX)))

\* the calls of add_game the model makes
AddRequests ==
    {[game_title |-> TitleX, game_id |-> None, target_price |-> Some(1500), store |-> None],
     [game_title |-> TitleX, game_id |-> Some("g1"), target_price |-> None,
      store |-> Some(Steam)],
     [game_title |-> TitleB, game_id |-> None, target_price |-> None, store |-> None]}

\* the calls of remove_game the model makes
RemoveRequests ==
    {[game_title |-> TitleX, store |-> None],
     [game_title |-> TitleX, store |-> Some(Steam)],
     [game_title |-> TitleB, store |-> None]}

MaxAdds == 2
MaxRemoves == 1
MaxRuns == 1
MaxFaults == 1
MaxMarks == 1

(***************************************************************************)
(* The watchlist and the reconciliation run.  add_game and remove_game     *)
(* come from other processes on the same database file (the CLI, the       *)
(* dashboard) and interleave with the run's steps.                         *)
(***************************************************************************)
\* WatchlistManager.add_game -> Database.add_to_watchlist
AddGame ==
    /\ n_adds < MaxAdds
    /\ \E q \in AddRequests :
          watchlist' = WatchlistAfterAdd(watchlist, wl_next_id, q.game_title, q.game_id,
                                         q.target_price, q.store, now)
    /\ wl_next_id' = wl_next_id + 1
    /\ now' = now + 1
    /\ n_adds' = n_adds + 1
    /\ UNCHANGED <<historical_lows, price_history, amazing_deals, rn_pc, rn_watchlist,
                   rn_idx, rn_deals, rn_results, rn_fetched, rn_touched,
                   rn_persisted, rn_base, n_removes, n_runs, n_faults,
                   clVars, lwVars, mgVars, stVars,
                   ntVars, scVars>>

\* WatchlistManager.remove_game -> Database.remove_from_watchlist
RemoveGame ==
    /\ n_removes < MaxRemoves
    /\ \E q \in RemoveRequests :
          watchlist' = WatchlistAfterRemove(watchlist, q.game_title, q.store)
    /\ n_removes' = n_removes + 1
    /\ UNCHANGED <<historical_lows, wl_next_id, price_history, amazing_deals, now, rn_pc,
                   rn_watchlist, rn_idx, rn_deals, rn_results, rn_fetched,
                   rn_touched, rn_persisted, rn_base, n_adds, n_runs, n_faults,
                   clVars, lwVars, mgVars, stVars,
                   ntVars, scVars>>

\* check_all_games: watchlist = self.get_games(); results = []
Started ==
    /\ rn_watchlist' = get_games
    /\ rn_results' = <<>>
    /\ rn_deals' = <<>>
    /\ rn_fetched' = <<>>
    /\ rn_touched' = <<>>
    /\ rn_idx' = 1
    /\ rn_pc' = IF get_games = <<>> THEN "done" ELSE "fetch"
    /\ rn_persisted' = <<>>
    /\ rn_base' = Len(amazing_deals)
    /\ n_runs' = n_runs + 1
    /\ UNCHANGED <<dbVars, n_adds, n_removes, n_faults, clVars, lwVars, mgVars, stVars,
                   ntVars, scVars>>

\* a call of check_all_games, by the scheduler or by the CLI
StartRun ==
    /\ rn_pc \in {"idle", "done", "aborted"}
    /\ n_runs < MaxRuns
    /\ Started

\* the deals of a source's answer as constructed at time t: each GameDeal takes
\* timestamp = datetime.now()
Stamped(out, t) ==
    [out EXCEPT !.deals = [i \in 1..Len(out.deals) |->
                              [out.deals[i] EXCEPT !.timestamp = t + i - 1]]]

\* the state after `deals = await self.check_game(...)` got `found`
Fetched(found, item) ==
    /\ rn_fetched' = Append(rn_fetched, check_game(item.store, found.deals))
    /\ rn_deals' = check_game(item.store, found.deals)
    /\ rn_pc' = IF found.raised THEN "aborted"
                ELSE IF check_game(item.store, found.deals) = <<>> THEN "touch"
                ELSE "deals"

\* deals = await self.check_game(game_title, game_id, store)
FetchDeals ==
    /\ rn_pc = "fetch"
    /\ \E cs \in CheapSharkAnswers, it \in ItadAnswers(rn_watchlist[rn_idx].game_title) :
          /\ Fetched(search_game_global(rn_watchlist[rn_idx].game_title,
                                        Stamped(cs, now),
                                        Stamped(it, now + Len(cs.deals))),
                     rn_watchlist[rn_idx])
          /\ now' = now + FetchTicks
    /\ UNCHANGED <<historical_lows, watchlist, wl_next_id, price_history, amazing_deals,
                   rn_watchlist, rn_idx, rn_results, rn_touched, rn_persisted,
                   rn_base, n_adds, n_removes, n_runs, n_faults,
                   clVars, lwVars, mgVars, stVars,
                   ntVars, scVars>>

\* how a call of add_price_history or save_amazing_deal can end.  "ok": the
\* statement ran and was committed.  "error": execute or commit raised
\* sqlite3.Error, which the method catches, returning False.  "raised":
\* sqlite3.connect raised (the file cannot be opened); the call stands before
\* the try, so the exception leaves the method.
StorageOutcomes == {"ok", "error", "raised"}

\* the storage errors among the outcomes h of add_price_history and s of
\* save_amazing_deal ("none": not called)
Faults(h, s) == (IF h = "ok" THEN 0 ELSE 1) + (IF s \in {"error", "raised"} THEN 1 ELSE 0)

\* add_price_history called only for an amazing deal
HistoryCalledIfAmazing(analysis) == analysis.is_amazing_deal

\* self.db.add_price_history(deal, game_id): called for every deal
HistoryCalled(analysis) == TRUE

\* save_amazing_deal called also for a deal that met its target price
SaveCalledOnTarget(analysis) ==
    analysis.is_amazing_deal \/ analysis.meets_target = Some(TRUE)

\* if analysis["is_amazing_deal"]: self.db.save_amazing_deal(...)
SaveCalled(analysis) == analysis.is_amazing_deal

\* the ways the two calls of one pass of the loop body can end
BodyOutcomes(analysis) ==
    {o \in (StorageOutcomes \cup {"none"}) \X (StorageOutcomes \cup {"none"}) :
        /\ o[1] = "none" <=> ~HistoryCalled(analysis)
        /\ o[2] = "none" <=> (o[1] = "raised" \/ ~SaveCalled(analysis))}

\* the tables and `results` after one pass of the loop body for `deal`, the
\* calls ending as h and s; an exception ends the run
Processed(item, deal, analysis, h, s) ==
    /\ price_history' = IF h = "ok" THEN HistoryAfterAdd(price_history, deal, item.game_id)
                        ELSE price_history
    /\ amazing_deals' = IF s = "ok"
                        THEN DealsAfterSave(amazing_deals, deal,
                                            ReasonOrDefault(analysis.reason))
                        ELSE amazing_deals
    /\ rn_results' = IF "raised" \in {h, s} THEN rn_results
                     ELSE Append(rn_results, ResultOf(item, deal, analysis))
    /\ rn_persisted' = IF "raised" \in {h, s} THEN rn_persisted
                       ELSE Append(rn_persisted, [history |-> h, saved |-> s])
    /\ rn_deals' = IF "raised" \in {h, s} THEN rn_deals ELSE Tail(rn_deals)
    /\ rn_pc' = IF "raised" \in {h, s} THEN "aborted"
                ELSE IF Tail(rn_deals) = <<>> THEN "touch" ELSE "deals"
    /\ n_faults' = n_faults + Faults(h, s)

\* the loop body for `deal` with the analysis it got
ProcessAnalysed(item, deal, analysis) ==
    \E o \in BodyOutcomes(analysis) :
        /\ n_faults + Faults(o[1], o[2]) <= MaxFaults
        /\ Processed(item, deal, analysis, o[1], o[2])

\* for deal in deals: analyze_deal, add_price_history, save_amazing_deal, append
ProcessDeal ==
    /\ rn_pc = "deals"
    /\ \E low \in LowLookups(Head(rn_deals), rn_watchlist[rn_idx].game_id) :
          ProcessAnalysed(rn_watchlist[rn_idx], Head(rn_deals),
                          analyze_deal(Head(rn_deals), rn_watchlist[rn_idx].target_price,
                                       low))
    /\ UNCHANGED <<historical_lows, watchlist, wl_next_id, now, rn_watchlist, rn_idx,
                   rn_fetched, rn_touched, rn_base, n_adds, n_removes, n_runs, clVars,
                   lwVars, mgVars, stVars,
                   ntVars, scVars>>

\* self.db.update_watchlist_check(game_title, store), then the next item
TouchEntry ==
    /\ rn_pc = "touch"
    /\ watchlist' = WatchlistAfterCheck(watchlist, rn_watchlist[rn_idx].game_title,
                                        rn_watchlist[rn_idx].store, now)
    /\ rn_touched' = Append(rn_touched,
          [idx |-> rn_idx,
           ids |-> {r.id : r \in WatchlistChecked(watchlist,
                                                  rn_watchlist[rn_idx].game_title,
                                                  rn_watchlist[rn_idx].store)}])
    /\ now' = now + 1
    /\ rn_idx' = rn_idx + 1
    /\ rn_pc' = IF rn_idx = Len(rn_watchlist) THEN "done" ELSE "fetch"
    /\ UNCHANGED <<historical_lows, wl_next_id, price_history, amazing_deals,
                   rn_watchlist, rn_deals, rn_results, rn_fetched, rn_persisted,
                   rn_base, n_adds, n_removes, n_runs, n_faults,
                   clVars, lwVars, mgVars, stVars,
                   ntVars, scVars>>

(***************************************************************************)
(* Scheduler.check_and_notify (src/src/scheduler.py): check_all_games,     *)
(* then the loop over its results.                                         *)
(***************************************************************************)
\* the truth of result["meets_target"]: None and False are false
TruthyBool(o) == o = Some(TRUE)

\* the truth of target_price: None and 0.0 are false
TruthyPrice(o) == o # None /\ o[1] # 0

\* the notifier calls the loop body makes for one result
NotificationsFor(result) ==
    IF result.is_amazing_deal
    THEN <<[kind |-> "notify_amazing_deal", deal |-> result.deal,
            reason |-> result.analysis.reason]>>
    ELSE IF TruthyBool(result.meets_target)
              /\ TruthyPrice(result.watchlist_item.target_price)
    THEN <<[kind |-> "notify_target_price", deal |-> result.deal,
            target_price |-> result.watchlist_item.target_price[1]]>>
    ELSE <<>>

\* for result in results: ...
RECURSIVE Notifications(_)
Notifications(results) ==
    IF results = <<>> THEN <<>>
    ELSE NotificationsFor(Head(results)) \o Notifications(Tail(results))

\* check_and_notify after check_all_games returned `results`
Notify ==
    /\ rn_pc = "done"
    /\ nt_sent' = Notifications(rn_results)
    /\ rn_pc' = "notified"
    /\ UNCHANGED <<dbVars, rn_watchlist, rn_idx, rn_deals, rn_results, rn_fetched,
                   rn_touched, rn_persisted, rn_base, n_adds, n_removes, n_runs,
                   n_faults, clVars, lwVars, mgVars, stVars, nt_mark, n_marks, scVars>>

\* the notifier collaborator: mark_deal_notified(id), ending as `outcome`
MarkNotified ==
    /\ n_marks < MaxMarks
    /\ \E id \in 1..(Len(amazing_deals) + 1), outcome \in StorageOutcomes :
          /\ amazing_deals' = IF outcome = "ok" THEN DealsAfterMark(amazing_deals, id)
                              ELSE amazing_deals
          /\ nt_mark' = Some([id |-> id, outcome |-> outcome])
    /\ n_marks' = n_marks + 1
    /\ UNCHANGED <<historical_lows, watchlist, wl_next_id, price_history, now, rnVars,
                   clVars, lwVars, mgVars, stVars, nt_sent, scVars>>

(***************************************************************************)
(* The classifier on its own: every input drawn from the sets below, one   *)
(* call of analyze_deal on it.                                             *)
(***************************************************************************)
ClPrices == {95, 100, 499, 500, 949, 950, 1000, 1200}
ClDiscounts == {0, 500, 501, 600, 749, 750, 800}
ClLows == {-100, 0, 100, 400, 1000}
ClTargets == {None, Some(1000), Some(1500)}
ClGameIds == {None, Some("g1")}
ClRowIds == {"g1", "d1"}
ClRowStores == {Steam, Gog}

ClDeal(price, discount) ==
    [title |-> TitleX, store |-> Steam, price |-> price, original_price |-> 6000,
     discount_percent |-> discount, url |-> "u1", deal_id |-> "d1", timestamp |-> 1]

LowRow(game_id, title, store, lowest_price, timestamp) ==
    [game_id |-> game_id, game_title |-> title, store |-> store,
     lowest_price |-> lowest_price, timestamp |-> timestamp]

ClTables ==
    {{}} \cup {{LowRow(g, TitleX, s, l, 0)} : g \in ClRowIds, s \in ClRowStores, l \in ClLows}

(***************************************************************************)
(* The historical-low tracker on its own: two callers (the CLI and the     *)
(* scheduler are separate processes on one database file) call             *)
(* update_historical_low; each call is one SQLite write transaction.       *)
(***************************************************************************)
Callers == {1, 2}
MaxCalls == 3
LwPrices == {-100, 0, 300, 500, 800}
LwIds == {"g1"}
LwStores == {Steam, Gog}

NoArgs == [game_id |-> "", game_title |-> <<>>, store |-> <<>>, lowest_price |-> 0]

LwIdle ==
    /\ lw_pc = [c \in Callers |-> "idle"]
    /\ lw_args = [c \in Callers |-> NoArgs]
    /\ lw_ret = [c \in Callers |-> None]
    /\ lw_log = <<>>
    /\ lw_overlap = FALSE

ClIdle ==
    /\ cl_pc = "done"
    /\ cl_deal = ClDeal(0, 0)
    /\ cl_game_id = None
    /\ cl_target = None
    /\ cl_result = None
    /\ cl_first = None

\* the tables other than historical_lows as _init_database creates them
MgIdle ==
    /\ mg_pc = "done"
    /\ mg_query = <<>>
    /\ mg_store = None
    /\ mg_cheapshark = Answer(TRUE, <<>>)
    /\ mg_itad = Answer(TRUE, <<>>)
    /\ mg_found = None
    /\ mg_kept = None

StIdle ==
    /\ st_call = None
    /\ st_before = <<>>

NtIdle ==
    /\ nt_sent = <<>>
    /\ nt_mark = None
    /\ n_marks = 0

\* Scheduler.__init__: self.running = False
ScIdle ==
    /\ sc_pc = "new"
    /\ sc_running = FALSE
    /\ sc_stopped = FALSE
    /\ sc_cycles = 0
    /\ sc_outcomes = <<>>
    /\ sc_slept = 0

DbEmptyBut ==
    /\ watchlist = {}
    /\ wl_next_id = 1
    /\ price_history = <<>>
    /\ amazing_deals = <<>>
    /\ now = 1

RnIdle ==
    /\ rn_pc = "idle"
    /\ rn_watchlist = <<>>
    /\ rn_idx = 0
    /\ rn_deals = <<>>
    /\ rn_results = <<>>
    /\ rn_fetched = <<>>
    /\ rn_touched = <<>>
    /\ rn_persisted = <<>>
    /\ rn_base = 0
    /\ n_faults = 0
    /\ n_adds = 0
    /\ n_removes = 0
    /\ n_runs = 0

LwInit ==
    /\ historical_lows = {}
    /\ DbEmptyBut
    /\ RnIdle
    /\ LwIdle
    /\ ClIdle
    /\ MgIdle
    /\ StIdle
    /\ NtIdle
    /\ ScIdle

\* a caller enters update_historical_low(game_id, game_title, store, lowest_price)
LwCall(c) ==
    /\ lw_pc[c] = "idle"
    /\ Len(lw_log) + Cardinality({o \in Callers : lw_pc[o] = "called"}) < MaxCalls
    /\ \E g \in LwIds, st \in LwStores, p \in LwPrices :
          lw_args' = [lw_args EXCEPT ![c] =
                        [game_id |-> g, game_title |-> TitleX, store |-> st,
                         lowest_price |-> p]]
    /\ lw_pc' = [lw_pc EXCEPT ![c] = "called"]
    /\ lw_overlap' = (\E o \in Callers \ {c} : lw_pc[o] = "called")
    /\ UNCHANGED <<dbVars, rnVars, clVars, lw_ret, lw_log, mgVars, stVars,
                   ntVars, scVars>>

\* cursor.execute(INSERT OR REPLACE ...); conn.commit(); return True
LwCommit(c) ==
    /\ lw_pc[c] = "called"
    /\ historical_lows' = LowsAfterUpdate(historical_lows, lw_args[c].game_id,
                                          lw_args[c].game_title, lw_args[c].store,
                                          lw_args[c].lowest_price, now)
    /\ now' = now + 1
    /\ lw_ret' = [lw_ret EXCEPT ![c] = Some(TRUE)]
    /\ lw_log' = Append(lw_log, lw_args[c])
    /\ lw_pc' = [lw_pc EXCEPT ![c] = "done"]
    /\ UNCHANGED <<watchlist, wl_next_id, price_history, amazing_deals, rnVars, clVars,
                   lw_args, lw_overlap, mgVars, stVars,
                   ntVars, scVars>>

\* except sqlite3.Error: return False (the database stayed locked, the disk is full)
LwError(c) ==
    /\ lw_pc[c] = "called"
    /\ lw_ret' = [lw_ret EXCEPT ![c] = Some(FALSE)]
    /\ lw_pc' = [lw_pc EXCEPT ![c] = "done"]
    /\ lw_overlap' = FALSE
    /\ UNCHANGED <<dbVars, rnVars, clVars, lw_args, lw_log, mgVars, stVars,
                   ntVars, scVars>>

\* the caller goes on after the call returned
LwReturn(c) ==
    /\ lw_pc[c] = "done"
    /\ lw_pc' = [lw_pc EXCEPT ![c] = "idle"]
    /\ lw_args' = [lw_args EXCEPT ![c] = NoArgs]
    /\ lw_ret' = [lw_ret EXCEPT ![c] = None]
    /\ lw_overlap' = FALSE
    /\ UNCHANGED <<dbVars, rnVars, clVars, lw_log, mgVars, stVars,
                   ntVars, scVars>>

LwNext ==
    \E c \in Callers : LwCall(c) \/ LwCommit(c) \/ LwError(c) \/ LwReturn(c)

SpecLow == LwInit /\ [][LwNext]_vars

(***************************************************************************)
(* Properties of the historical-low tracker (SpecLow)                      *)
(***************************************************************************)
RECURSIVE MinOf(_)
MinOf(S) ==
    LET x == CHOOSE y \in S : TRUE
    IN  IF S = {x} THEN x
        ELSE LET rest == MinOf(S \ {x}) IN IF x < rest THEN x ELSE rest

\* the prices of the committed record calls on (game_id, store)
LwRecorded(g, st) ==
    {lw_log[i].lowest_price : i \in {j \in 1..Len(lw_log) :
                                        lw_log[j].game_id = g /\ lw_log[j].store = st}}

\* C1: after every record call on a pair, the stored lowest_price of the pair is
\* the minimum of all prices recorded for it so far.
C1_MonotonicLow ==
    \A g \in LwIds, st \in LwStores :
        LwRecorded(g, st) # {} =>
            \E r \in get_historical_low(g, Some(st)) :
                r.lowest_price = MinOf(LwRecorded(g, st))

\* C5: two record calls in flight together on one key, both committed: the
\* stored lowest_price of the key is the smaller of the two prices.
C5_NoLostUpdate ==
    (/\ lw_overlap
     /\ \A c \in Callers : lw_pc[c] = "done" /\ lw_ret[c] = Some(TRUE)
     /\ lw_args[1].game_id = lw_args[2].game_id
     /\ lw_args[1].store = lw_args[2].store)
    => \E r \in get_historical_low(lw_args[1].game_id, Some(lw_args[1].store)) :
          r.lowest_price = MinOf({lw_args[1].lowest_price, lw_args[2].lowest_price})

ClInit ==
    /\ historical_lows \in ClTables
    /\ DbEmptyBut
    /\ RnIdle
    /\ cl_pc = "ready"
    /\ cl_deal \in {ClDeal(p, d) : p \in ClPrices, d \in ClDiscounts}
    /\ cl_game_id \in ClGameIds
    /\ cl_target \in ClTargets
    /\ cl_result = None
    /\ cl_first = None
    /\ LwIdle
    /\ MgIdle
    /\ StIdle
    /\ NtIdle
    /\ ScIdle

\* result = analyzer.analyze_deal(deal, game_id, target_price), called twice
\* with the same arguments
ClAnalyze ==
    /\ cl_pc \in {"ready", "again"}
    /\ \E low \in LowLookups(cl_deal, cl_game_id) :
          /\ cl_result' = Some(analyze_deal(cl_deal, cl_target, low))
          /\ cl_first' = IF cl_pc = "ready"
                         THEN Some(analyze_deal(cl_deal, cl_target, low))
                         ELSE cl_first
    /\ cl_pc' = IF cl_pc = "ready" THEN "again" ELSE "done"
    /\ historical_lows' = LowsAfterAnalyze(historical_lows, cl_deal, cl_game_id)
    /\ UNCHANGED <<watchlist, wl_next_id, price_history, amazing_deals, now,
                   rnVars, cl_deal, cl_game_id, cl_target, lwVars,
                   mgVars, stVars,
                   ntVars, scVars>>

ClNext == ClAnalyze

SpecClassify == ClInit /\ [][ClNext]_vars

(***************************************************************************)
(* Properties of the classifier (SpecClassify)                             *)
(***************************************************************************)
ClDone == cl_pc = "done"
ClRes == cl_result[1]

\* the historical-low rows of the observation's lookup key
ClKeyRows ==
    {r \in historical_lows :
        /\ r.game_id = (IF cl_game_id = None THEN cl_deal.deal_id ELSE cl_game_id[1])
        /\ r.store = cl_deal.store}

ClHasReason(rule) ==
    /\ ClRes.reason # None
    /\ \E i \in 1..Len(ClRes.reason[1]) : ClRes.reason[1][i].rule = rule

ClDiscountFired == ClHasReason("Descuento")
ClNearLowFired == ClHasReason("Precio cercano al minimo historico")
ClFallbackFired == ClHasReason("Precio muy bajo")

AbsDiff(a, b) == IF a >= b THEN a - b ELSE b - a

C7_NearLowExact ==
    ClDone =>
        \A r \in ClKeyRows :
            ClNearLowFired <=>
                /\ r.lowest_price > 0
                /\ AbsDiff(cl_deal.price, r.lowest_price) * 100
                      <= PRICE_TOLERANCE_PERCENT * r.lowest_price

C9_Expected(d, n, f) ==
    LET rd == [rule |-> "Descuento", value |-> cl_deal.discount_percent]
        rn == [rule |-> "Precio cercano al minimo historico",
               value |-> (CHOOSE r \in ClKeyRows : TRUE).lowest_price]
        rf == [rule |-> "Precio muy bajo", value |-> cl_deal.price]
        sp == [rule |-> " | ", value |-> 0]
    IN  CASE d /\ n /\ f -> <<rd, sp, rn, sp, rf>>
          [] d /\ n /\ ~f -> <<rd, sp, rn>>
          [] d /\ ~n /\ f -> <<rd, sp, rf>>
          [] ~d /\ n /\ f -> <<rn, sp, rf>>
          [] d /\ ~n /\ ~f -> <<rd>>
          [] ~d /\ n /\ ~f -> <<rn>>
          [] ~d /\ ~n /\ f -> <<rf>>

\* C9: is_amazing_deal is true iff one of the three rules fired; the reason is
\* the fired rules' reasons in rule order joined by " | ", and is None iff no
\* rule fired.  (The near-low rule fires only within the 5% band of a positive
\* low of the key, and always strictly inside it.)
C9_ReasonsJoined ==
    ClDone =>
        LET d == cl_deal.discount_percent >= 750
            n == ClNearLowFired
            f == ClKeyRows = {} /\ cl_deal.price < 500 /\ cl_deal.discount_percent > 500
        IN  /\ ClRes.is_amazing_deal <=> (d \/ n \/ f)
            /\ ClRes.reason = None <=> ~(d \/ n \/ f)
            /\ (d \/ n \/ f) => ClRes.reason = Some(C9_Expected(d, n, f))
            /\ n => \E r \in ClKeyRows :
                      /\ r.lowest_price > 0
                      /\ AbsDiff(cl_deal.price, r.lowest_price) * 100 <= 5 * r.lowest_price
            /\ \A r \in ClKeyRows :
                  (r.lowest_price > 0
                     /\ AbsDiff(cl_deal.price, r.lowest_price) * 100 < 5 * r.lowest_price)
                  => n

\* C9 witness: two rules fired (80% discount, 9.50 against a low of 10.00)
C9_Witness ==
    /\ ClDone
    /\ ClDiscountFired
    /\ ClNearLowFired
    /\ Len(ClRes.reason[1]) = 3

\* C10: meets_target is true exactly when a target price was supplied and
\* price <= target (the target itself included), whatever is_amazing_deal is.
C10_TargetIndependent ==
    ClDone =>
        (ClRes.meets_target = Some(TRUE)
            <=> (cl_target # None /\ cl_deal.price <= cl_target[1]))

\* C10 witness: price 12.00, discount 80%, target 15.00: both flags true
C10_Witness ==
    /\ ClDone
    /\ cl_deal.price = 1200
    /\ cl_deal.discount_percent = 800
    /\ cl_target = Some(1500)
    /\ ClRes.is_amazing_deal
    /\ ClRes.meets_target = Some(TRUE)

(***************************************************************************)
(* The program: an empty database, the watchlist commands and the run      *)
(***************************************************************************)
Init ==
    /\ historical_lows = {}
    /\ DbEmptyBut
    /\ RnIdle
    /\ ClIdle
    /\ LwIdle
    /\ MgIdle
    /\ StIdle
    /\ NtIdle
    /\ ScIdle

Next ==
    \/ AddGame
    \/ RemoveGame
    \/ StartRun
    \/ FetchDeals
    \/ ProcessDeal
    \/ TouchEntry

Spec == Init /\ [][Next]_vars

(***************************************************************************)
(* Properties of the program (Spec)                                        *)
(***************************************************************************)
\* the prices check_all_games has recorded for the pair of price_history[i]
ObservedPrices(i) ==
    {price_history[k].price : k \in {k \in 1..Len(price_history) :
        /\ price_history[k].game_id = price_history[i].game_id
        /\ price_history[k].store = price_history[i].store}}

\* C2: once a run has processed an observation of a (identity, store) pair,
\* get_historical_low for the pair returns a record whose lowest_price is the
\* least price observed for the pair so far
C2_LowFollowsRun ==
    \A i \in 1..Len(price_history) :
        \E r \in get_historical_low(price_history[i].game_id,
                                    Some(price_history[i].store)) :
            r.lowest_price = MinOf(ObservedPrices(i))

\* the positions of the run's snapshot whose update_watchlist_check was made
TouchedPositions == {rn_touched[k].idx : k \in 1..Len(rn_touched)}

\* C3: when the fetch of one entry raises, the run still completes for the
\* others: every other entry of the snapshot gets its last_checked update
C3_EntryIsolation ==
    rn_pc = "aborted" =>
        \A i \in 1..Len(rn_watchlist) : i # rn_idx => i \in TouchedPositions

\* no add_game or remove_game came between the run's snapshot and now: the
\* active rows are the rows of the snapshot
RunUndisturbed ==
    {r.id : r \in {w \in watchlist : w.is_active}}
        = {rn_watchlist[i].id : i \in 1..Len(rn_watchlist)}

\* the entries of the snapshot differ in title or in store filter
SnapshotKeysDistinct ==
    \A i, j \in 1..Len(rn_watchlist) :
        (/\ rn_watchlist[i].game_title = rn_watchlist[j].game_title
         /\ rn_watchlist[i].store = rn_watchlist[j].store) => i = j

\* the number of update_watchlist_check calls of the run that wrote row `id`
TimesWritten(id) == Cardinality({k \in 1..Len(rn_touched) : id \in rn_touched[k].ids})

\* C4: in a run, processing an entry writes the last_checked of that entry and
\* of no other, and at the end of the run each entry was written exactly once
C4_TouchedOnce ==
    (RunUndisturbed /\ SnapshotKeysDistinct) =>
        /\ \A k \in 1..Len(rn_touched) :
              rn_touched[k].ids = {rn_watchlist[rn_touched[k].idx].id}
        /\ rn_pc = "done" =>
              \A i \in 1..Len(rn_watchlist) : TimesWritten(rn_watchlist[i].id) = 1

(***************************************************************************)
(* The search on its own: the answers of the two sources, the title and    *)
(* the store filter drawn from the sets below; one call of check_game.     *)
(***************************************************************************)
MgDeals == {DealX, DealXItad, DealXGog, DealXDeck, DealB, DealNoStore}
MgStores == {None, Some(Steam), Some(SteamLower), Some(Gog)}
MaxSourceDeals == 2

\* the lists of at most n deals
RECURSIVE DealLists(_)
DealLists(n) ==
    IF n = 0 THEN {<<>>}
    ELSE DealLists(n - 1)
            \cup {Append(l, d) : l \in {x \in DealLists(n - 1) : Len(x) = n - 1},
                                 d \in MgDeals}

\* what a source can answer: it raised, or a list of deals
MgAnswers == {Answer(FALSE, <<>>)} \cup {Answer(TRUE, l) : l \in DealLists(MaxSourceDeals)}

MgInit ==
    /\ historical_lows = {}
    /\ DbEmptyBut
    /\ RnIdle
    /\ ClIdle
    /\ LwIdle
    /\ StIdle
    /\ NtIdle
    /\ ScIdle
    /\ mg_pc = "ready"
    /\ mg_query = TitleX
    /\ mg_store \in MgStores
    /\ mg_cheapshark \in MgAnswers
    /\ mg_itad \in MgAnswers
    /\ mg_found = None
    /\ mg_kept = None

\* what check_game returns, given what search_game_global did: nothing when it
\* raised
Kept(store, found) == IF found.raised THEN None ELSE Some(check_game(store, found.deals))

\* deals = await self.check_game(game_title, game_id, store)
MgCheckGame ==
    /\ mg_pc = "ready"
    /\ mg_found' = Some(search_game_global(mg_query, mg_cheapshark, mg_itad))
    /\ mg_kept' = Kept(mg_store, search_game_global(mg_query, mg_cheapshark, mg_itad))
    /\ mg_pc' = "done"
    /\ UNCHANGED <<dbVars, rnVars, clVars, lwVars, mg_query, mg_store, mg_cheapshark,
                   mg_itad, stVars,
                   ntVars, scVars>>

MgNext == MgCheckGame

SpecMerge == MgInit /\ [][MgNext]_vars

(***************************************************************************)
(* Properties of the search (SpecMerge)                                    *)
(***************************************************************************)
\* the search returned
MgReturned == mg_pc = "done" /\ ~mg_found[1].raised

\* all_deals, the input of the merge step
MgAllDeals == FromCheapShark(mg_query, mg_cheapshark) \o FromItad(mg_itad)

\* (lower(title), lower(store))
MgKey(deal) == <<Lower(deal.title), Lower(deal.store)>>

\* the positions of `deals` that are the first of their key
FirstSeen(deals) ==
    {i \in 1..Len(deals) : \A j \in 1..(i - 1) : MgKey(deals[j]) # MgKey(deals[i])}

\* the k-th least element of a set of numbers
Kth(P, k) == CHOOSE i \in P : Cardinality({j \in P : j < i}) = k - 1

\* C11: the merge step returns, in first-seen order of the keys, the first
\* observation seen for each (lower(title), lower(store)) key and nothing
\* else; later duplicates are dropped whatever their price
C11_DedupStable ==
    MgReturned =>
        mg_found[1].deals =
            [k \in 1..Cardinality(FirstSeen(MgAllDeals)) |->
                MgAllDeals[Kth(FirstSeen(MgAllDeals), k)]]

\* a cheaper duplicate from the other source came after the first of its key
\* and was dropped
C11_Witness ==
    /\ MgReturned
    /\ \E i, j \in 1..Len(MgAllDeals) :
          /\ i < j
          /\ i \in FirstSeen(MgAllDeals)
          /\ MgKey(MgAllDeals[i]) = MgKey(MgAllDeals[j])
          /\ MgAllDeals[j].price < MgAllDeals[i].price
          /\ MgAllDeals[j].deal_id # MgAllDeals[i].deal_id
    /\ Len(mg_found[1].deals) >= 2

\* C12: with a store filter check_game keeps exactly the merged observations
\* whose store equals the filter, compared case-insensitively; without a
\* filter it keeps them all
C12_StoreFilterExact ==
    MgReturned =>
        mg_kept[1] =
            IF mg_store = None THEN mg_found[1].deals
            ELSE SelectSeq(mg_found[1].deals,
                           LAMBDA d : Lower(d.store) = Lower(mg_store[1]))

(***************************************************************************)
(* The run on its own: a watchlist made by some calls of add_game, then    *)
(* one call of check_all_games with no command of another process in       *)
(* between.                                                                *)
(***************************************************************************)
\* the watchlist tables k calls of add_game can leave on an empty database,
\* the j-th made at time j
RECURSIVE WatchlistsAfter(_)
WatchlistsAfter(k) ==
    IF k = 0 THEN {{}}
    ELSE {WatchlistAfterAdd(t, k, q.game_title, q.game_id, q.target_price, q.store, k) :
            t \in WatchlistsAfter(k - 1), q \in AddRequests}

\* the database after k calls of add_game, no run made yet
RunInitAfter(k) ==
    /\ historical_lows = {}
    /\ watchlist \in WatchlistsAfter(k)
    /\ wl_next_id = k + 1
    /\ now = k + 1
    /\ n_adds = k
    /\ price_history = <<>>
    /\ amazing_deals = <<>>
    /\ rn_pc = "idle"
    /\ rn_watchlist = <<>>
    /\ rn_idx = 0
    /\ rn_deals = <<>>
    /\ rn_results = <<>>
    /\ rn_fetched = <<>>
    /\ rn_touched = <<>>
    /\ rn_persisted = <<>>
    /\ rn_base = 0
    /\ n_faults = 0
    /\ n_removes = 0
    /\ n_runs = 0
    /\ ClIdle
    /\ LwIdle
    /\ MgIdle
    /\ StIdle
    /\ NtIdle
    /\ ScIdle

RunInit == \E k \in 0..MaxAdds : RunInitAfter(k)

\* the one call of check_all_games
RunOnce == rn_pc = "idle" /\ StartRun

RunNext ==
    \/ RunOnce
    \/ FetchDeals
    \/ ProcessDeal
    \/ TouchEntry

SpecRun == RunInit /\ [][RunNext]_vars

(***************************************************************************)
(* Properties of the run's persistence (SpecRun)                              *)
(***************************************************************************)
\* row `h` of price_history records the observation of result `res`
HistoryRowOf(h, res) ==
    /\ h.game_id = LookupId(res.deal, res.watchlist_item.game_id)
    /\ h.store = res.deal.store
    /\ h.timestamp = res.deal.timestamp
    /\ h.price = res.deal.price
    /\ h.game_title = res.deal.title

\* result i of the run has its row in price_history
InHistory(i) ==
    \E k \in 1..Len(price_history) : HistoryRowOf(price_history[k], rn_results[i])

SavedFor(i) ==
    {k \in (rn_base + 1)..Len(amazing_deals) :
        /\ amazing_deals[k].deal_id = rn_results[i].deal.deal_id
        /\ amazing_deals[k].timestamp = rn_results[i].deal.timestamp
        /\ amazing_deals[k].store = rn_results[i].deal.store}

\* the results of the run classified amazing whose save met no storage error
AmazingResults ==
    {i \in 1..Len(rn_results) :
        rn_results[i].is_amazing_deal /\ rn_persisted[i].saved # "error"}

AbortedByStorage == rn_pc = "aborted" /\ rn_deals # <<>>

\* C18: a storage error of add_price_history or save_amazing_deal is not
\* propagated: the run goes on to the result of that observation and to the
\* remaining observations and entries
C18_BestEffort == ~AbortedByStorage

(***************************************************************************)
(* Further properties of the historical-low tracker (SpecLow)              *)
(***************************************************************************)
\* the calls committed before the n-th that were for the same pair
EarlierFor(n) ==
    {j \in 1..(n - 1) : /\ lw_log[j].game_id = lw_log[n].game_id
                        /\ lw_log[j].store = lw_log[n].store}

\* the value recorded for the pair of the n-th committed call just before it
\* (the table holds what the latest earlier call wrote)
RecordedBefore(n) ==
    lw_log[CHOOSE j \in EarlierFor(n) : \A o \in EarlierFor(n) : o <= j].lowest_price

\* C15: a record call returns true only if its price is strictly lower than
\* the value recorded before for the pair, or none was; a higher or equal
\* price changes nothing and returns false.  (lw_log holds the calls that
\* wrote and returned True.)
C15_TrueOnlyIfLower ==
    \A n \in 1..Len(lw_log) :
        EarlierFor(n) # {} => lw_log[n].lowest_price < RecordedBefore(n)

\* C16: no historical low with lowest_price <= 0 is ever stored
C16_NoInvalidPrice == \A r \in historical_lows : r.lowest_price > 0

\* the rows recorded for an identity, over all stores
LowRowsOf(g) == {r \in historical_lows : r.game_id = g}

\* C17: with the store omitted get_historical_low returns the record of the
\* least lowest_price of the identity, among equal ones the most recently
\* recorded, and none only when the identity has no record
C17_GlobalMinLatest ==
    \A g \in LwIds :
        /\ get_historical_low(g, None) = {} <=> LowRowsOf(g) = {}
        /\ \A r \in get_historical_low(g, None) :
              \A o \in LowRowsOf(g) :
                  \/ r.lowest_price < o.lowest_price
                  \/ r.lowest_price = o.lowest_price /\ r.timestamp >= o.timestamp

(***************************************************************************)
(* Properties of the watchlist table (Spec)                                *)
(***************************************************************************)
\* the ids of the rows get_watchlist(active_only = False) returns
RetrievableIds == {get_watchlist(FALSE)[k].id : k \in 1..Len(get_watchlist(FALSE))}

\* C19: no watchlist row is ever physically removed: every row once created
\* (ids 1 .. wl_next_id - 1) is still returned by get_watchlist(False)
C19_SoftDelete == \A id \in 1..(wl_next_id - 1) : id \in RetrievableIds

(***************************************************************************)
(* The price history on its own: add_price_history called with deals drawn *)
(* from the set below, among them the same deal again (a retried call).    *)
(***************************************************************************)
\* deal `d` as constructed at time t
At(d, t) == [d EXCEPT !.timestamp = t]

\* Game X at 11.00
DealXCheaper == Deal(TitleX, Steam, 1100, 6000, 817, "d1")

StDeals == {At(DealX, 1), At(DealX, 2), At(DealXCheaper, 1), At(DealXGog, 1),
            At(DealXItad, 1)}
StGameIds == {None, Some("g1")}
MaxHistoryRows == 3

StInit ==
    /\ historical_lows = {}
    /\ DbEmptyBut
    /\ RnIdle
    /\ ClIdle
    /\ LwIdle
    /\ MgIdle
    /\ StIdle
    /\ NtIdle
    /\ ScIdle

\* what add_price_history returns when its statement ended as `outcome`:
\* True, False, or nothing when the exception left it
HistoryReturn(outcome) ==
    IF outcome = "raised" THEN None ELSE Some(outcome = "ok")

\* one call of add_price_history(deal, game_id) ending as `outcome`
StCalled(deal, game_id, outcome) ==
    /\ price_history' = IF outcome = "ok"
                        THEN HistoryAfterAdd(price_history, deal, game_id)
                        ELSE price_history
    /\ st_call' = Some([op |-> "add_price_history", deal |-> deal, game_id |-> game_id,
                        outcome |-> outcome, ret |-> HistoryReturn(outcome)])
    /\ st_before' = price_history

\* Database.add_price_history
StAddHistory ==
    /\ Len(price_history) + Len(amazing_deals) < MaxHistoryRows
    /\ \E deal \in StDeals, game_id \in StGameIds, outcome \in StorageOutcomes :
          StCalled(deal, game_id, outcome)
    /\ UNCHANGED <<historical_lows, watchlist, wl_next_id, amazing_deals, now, rnVars,
                   clVars, lwVars, mgVars, ntVars, scVars>>

\* the deals and reasons save_amazing_deal is called with
StSavedDeals == {At(DealX, 1), At(DealB, 1)}
StReasons == {<<Reason("Descuento", 800)>>, <<Reason("Oferta imperdible", 0)>>}

\* one call of save_amazing_deal(deal, reason) ending as `outcome`
StSaved(deal, reason, outcome) ==
    /\ amazing_deals' = IF outcome = "ok" THEN DealsAfterSave(amazing_deals, deal, reason)
                        ELSE amazing_deals
    /\ st_call' = Some([op |-> "save_amazing_deal", deal |-> deal, reason |-> reason,
                        outcome |-> outcome, ret |-> HistoryReturn(outcome)])
    /\ st_before' = amazing_deals

\* Database.save_amazing_deal
StSaveDeal ==
    /\ Len(price_history) + Len(amazing_deals) < MaxHistoryRows
    /\ \E deal \in StSavedDeals, reason \in StReasons, outcome \in StorageOutcomes :
          StSaved(deal, reason, outcome)
    /\ UNCHANGED <<historical_lows, watchlist, wl_next_id, price_history, now, rnVars,
                   clVars, lwVars, mgVars, ntVars, scVars>>

StNext ==
    \/ StAddHistory
    \/ StSaveDeal

SpecStore == StInit /\ [][StNext]_vars

(***************************************************************************)
(* Properties of the price history (SpecStore)                             *)
(***************************************************************************)
\* the rows of `history` with the (game id, store, timestamp) of the last call
SameTriple(history) ==
    {k \in 1..Len(history) :
        /\ history[k].game_id = LookupId(st_call[1].deal, st_call[1].game_id)
        /\ history[k].store = st_call[1].deal.store
        /\ history[k].timestamp = st_call[1].deal.timestamp}

\* the last call ran its statement on a table that held its triple already
StRepeated ==
    /\ st_call # None
    /\ st_call[1].op = "add_price_history"
    /\ st_call[1].outcome = "ok"
    /\ SameTriple(st_before) # {}

\* C20: a call of add_price_history for a (game id, store, timestamp) triple
\* that is stored already leaves exactly one row of the triple, changes no
\* row and returns without raising
C20_HistoryIdempotent ==
    StRepeated =>
        /\ price_history = st_before
        /\ Cardinality(SameTriple(price_history)) = 1
        /\ st_call[1].ret = Some(TRUE)

\* the same triple came again, once with the same deal and once with another
\* price
C20_Witness ==
    /\ StRepeated
    /\ \E k \in SameTriple(st_before) : st_before[k].price # st_call[1].deal.price
    /\ Len(price_history) >= 2

(***************************************************************************)
(* Properties of the amazing-deal records (SpecStore)                      *)
(***************************************************************************)
\* the records of `saved` for the observation and reason of the last call
SameSaved(saved) ==
    {k \in 1..Len(saved) :
        /\ saved[k].game_title = st_call[1].deal.title
        /\ saved[k].store = st_call[1].deal.store
        /\ saved[k].price = st_call[1].deal.price
        /\ saved[k].deal_id = st_call[1].deal.deal_id
        /\ saved[k].timestamp = st_call[1].deal.timestamp
        /\ saved[k].reason = st_call[1].reason}

\* the last call was save_amazing_deal, its statement ran, and the table held
\* a record of its observation and reason already
StSavedAgain ==
    /\ st_call # None
    /\ st_call[1].op = "save_amazing_deal"
    /\ st_call[1].outcome = "ok"
    /\ SameSaved(st_before) # {}

\* C21: saving the same observation with the same reason again leaves exactly
\* one amazing-deal record of that observation
C21_SaveIdempotent ==
    StSavedAgain => Cardinality(SameSaved(amazing_deals)) = 1

(***************************************************************************)
(* Properties of the run's identities (SpecRun)                            *)
(***************************************************************************)
\* results i and j are for entries without a game id and observe the same
\* title and store, compared case-insensitively
SamePairNoId(i, j) ==
    /\ rn_results[i].watchlist_item.game_id = None
    /\ rn_results[j].watchlist_item.game_id = None
    /\ Lower(rn_results[i].deal.title) = Lower(rn_results[j].deal.title)
    /\ Lower(rn_results[i].deal.store) = Lower(rn_results[j].deal.store)

\* the key result i was looked up under in historical_lows and stored under
\* in price_history
IdentityOf(i) == LookupId(rn_results[i].deal, rn_results[i].watchlist_item.game_id)

\* C22: for entries without a game id, two observations of the same title and
\* store resolve to the same key, whatever source each came from
C22_SameIdentity ==
    \A i, j \in 1..Len(rn_results) : SamePairNoId(i, j) => IdentityOf(i) = IdentityOf(j)

(***************************************************************************)
(* One cycle of the scheduler: a watchlist made by some calls of add_game, *)
(* one call of check_and_notify, and the notifier collaborator marking     *)
(* records as notified meanwhile.                                          *)
(***************************************************************************)
\* the watchlists of two entries
CycleEntries == 2

CycleInit == RunInitAfter(CycleEntries)

CycleNext ==
    \/ RunOnce
    \/ FetchDeals
    \/ ProcessDeal
    \/ TouchEntry
    \/ Notify
    \/ MarkNotified

SpecCycle == CycleInit /\ [][CycleNext]_vars

(***************************************************************************)
(* Properties of the notifications (SpecCycle)                             *)
(***************************************************************************)
\* result i of the cycle was handed to notifier method `kind`
Notified(i, kind) ==
    \E k \in 1..Len(nt_sent) :
        nt_sent[k].kind = kind /\ nt_sent[k].deal = rn_results[i].deal

\* C23: after check_and_notify, every amazing-deal result was given to
\* notify_amazing_deal and every result that met its target price was given
\* to notify_target_price, amazing deal or not
C23_AllNotified ==
    rn_pc = "notified" =>
        \A i \in 1..Len(rn_results) :
            /\ rn_results[i].is_amazing_deal => Notified(i, "notify_amazing_deal")
            /\ rn_results[i].meets_target = Some(TRUE)
                  => Notified(i, "notify_target_price")

(***************************************************************************)
(* Consecutive runs: a watchlist made by some calls of add_game, then      *)
(* calls of check_all_games one after the other.                           *)
(***************************************************************************)
MaxRepeats == 2

\* the next call of check_all_games, the one before having returned
RunAgain ==
    /\ rn_pc \in {"idle", "done"}
    /\ n_runs < MaxRepeats
    /\ Started

RepeatNext ==
    \/ RunAgain
    \/ FetchDeals
    \/ ProcessDeal
    \/ TouchEntry

SpecRepeat == RunInit /\ [][RepeatNext]_vars

(***************************************************************************)
(* Properties of consecutive runs (SpecRepeat)                             *)
(***************************************************************************)
\* the no-history fallback is among the reasons
HasFallback(reason) ==
    /\ reason # None
    /\ \E k \in 1..Len(reason[1]) : reason[1][k].rule = "Precio muy bajo"

\* a price below 5.00 with a discount above 50% and below 75%
CheapDeal(deal) ==
    deal.price < 500 /\ deal.discount_percent > 500 /\ deal.discount_percent < 750

\* an earlier run flagged the pair of `deal` at the same price through the
\* fallback: its record is among those saved before this run began
FlaggedBefore(deal) ==
    \E k \in 1..rn_base :
        /\ amazing_deals[k].game_title = deal.title
        /\ amazing_deals[k].store = deal.store
        /\ amazing_deals[k].price = deal.price
        /\ amazing_deals[k].deal_id = deal.deal_id
        /\ HasFallback(Some(amazing_deals[k].reason))

\* C24: the first run that observes a cheap, well-discounted pair without
\* history flags it through the fallback; in the next run, at the same price,
\* the fallback does not fire
C24_FirstSightingOnly ==
    \A i \in 1..Len(rn_results) :
        CheapDeal(rn_results[i].deal) =>
            /\ n_runs = 1 => HasFallback(rn_results[i].analysis.reason)
            /\ (n_runs = 2 /\ FlaggedBefore(rn_results[i].deal))
                  => ~HasFallback(rn_results[i].analysis.reason)

(***************************************************************************)
(* Properties of the search under source failures (SpecMerge)              *)
(***************************************************************************)
\* the first observation of each key of `deals`, in first-seen order
FirstOfKeys(deals) ==
    [k \in 1..Cardinality(FirstSeen(deals)) |-> deals[Kth(FirstSeen(deals), k)]]

\* a source adapter failed in the call
SourceFailed == ~mg_cheapshark.ok \/ ~mg_itad.ok

\* C25: when a source fails, search_game_global does not raise and returns
\* the merged observations of the other source; when both fail it returns
\* the empty sequence
C25_SourceFailureTolerated ==
    (mg_pc = "done" /\ SourceFailed) =>
        /\ ~mg_found[1].raised
        /\ mg_found[1].deals =
              FirstOfKeys((IF mg_cheapshark.ok
                           THEN TitleFiltered(mg_query, mg_cheapshark.deals) ELSE <<>>)
                          \o (IF mg_itad.ok THEN mg_itad.deals ELSE <<>>))

(***************************************************************************)
(* Purity of the classifier (SpecClassify)                                 *)
(***************************************************************************)
\* the stored state the classifier could write
ClStored == <<historical_lows, price_history, watchlist, amazing_deals>>

MarkedNow(k) ==
    /\ n_marks' = n_marks + 1
    /\ nt_mark' = Some([id |-> k, outcome |-> "ok"])

\* C27: a record is created with notified false; the run (with its calls of
\* save_amazing_deal) never changes the flag of an existing record; the flag
\* of record k changes only in mark_deal_notified(k), which sets it to true
C27_NotifiedByMarkOnly ==
    [][/\ Len(amazing_deals') >= Len(amazing_deals)
       /\ \A k \in 1..Len(amazing_deals') :
             /\ k > Len(amazing_deals) => ~amazing_deals'[k].notified
             /\ (k <= Len(amazing_deals)
                   /\ amazing_deals'[k].notified # amazing_deals[k].notified)
                  => (MarkedNow(k) /\ amazing_deals'[k].notified)
             /\ (k <= Len(amazing_deals) /\ MarkedNow(k)) => amazing_deals'[k].notified
      ]_vars

\* the run saved a record after another was marked as notified, and the cycle
\* ended with the one marked and the other not
C27_Witness ==
    /\ rn_pc = "notified"
    /\ \E k, j \in 1..Len(amazing_deals) :
          /\ k < j
          /\ nt_mark = Some([id |-> k, outcome |-> "ok"])
          /\ amazing_deals[k].notified
          /\ ~amazing_deals[j].notified
          /\ amazing_deals[j].timestamp > amazing_deals[k].timestamp

(***************************************************************************)
(* Removal and the run: a watchlist of two entries, one call of            *)
(* check_all_games, and remove_game from another process before or during  *)
(* it.                                                                     *)
(***************************************************************************)
RemovalNext ==
    \/ RemoveGame
    \/ RunOnce
    \/ FetchDeals
    \/ ProcessDeal
    \/ TouchEntry

SpecRemoval == CycleInit /\ [][RemovalNext]_vars

(***************************************************************************)
(* Properties of deactivated entries (SpecRemoval)                         *)
(***************************************************************************)
\* the rows of the table that are not active
Deactivated == {r \in watchlist : ~r.is_active}

\* C28: a run that starts takes only active entries; its results and the
\* price history it appends are for entries of that snapshot; and no step
\* changes the last_checked of a deactivated row, also not the run during
\* which it was deactivated
C28_ActiveOnly ==
    /\ [][/\ rn_watchlist' # rn_watchlist
              => \A i \in 1..Len(rn_watchlist') :
                    \E r \in watchlist : r.id = rn_watchlist'[i].id /\ r.is_active
          /\ Len(price_history') > Len(price_history)
              => /\ rn_pc = "deals"
                 /\ price_history'[Len(price_history')].deal_id = Head(rn_deals).deal_id
                 /\ price_history'[Len(price_history')].timestamp
                       = Head(rn_deals).timestamp
          /\ \A r \in Deactivated :
                \E q \in watchlist' : q.id = r.id /\ q.last_checked = r.last_checked
         ]_vars
    /\ [](\A i \in 1..Len(rn_results) :
            \E k \in 1..Len(rn_watchlist) : rn_results[i].watchlist_item = rn_watchlist[k])

\* an entry was removed before the run: it is not in the snapshot and its
\* last_checked was not written, while the other entry was reconciled
C28_Witness ==
    /\ rn_pc = "done"
    /\ \E r \in Deactivated :
          /\ \A i \in 1..Len(rn_watchlist) : rn_watchlist[i].id # r.id
          /\ r.last_checked = None
    /\ \E r \in watchlist : r.is_active /\ r.last_checked # None
    /\ rn_results # <<>>

\* an entry was removed during the run: its update_watchlist_check wrote no row
RemovedInRun ==
    /\ rn_pc = "done"
    /\ \E r \in Deactivated, k \in 1..Len(rn_touched) :
          /\ rn_watchlist[rn_touched[k].idx].id = r.id
          /\ rn_touched[k].ids = {}
          /\ r.last_checked = None

(***************************************************************************)
(* Properties of the watchlist's keys (Spec)                               *)
(***************************************************************************)
\* C29: the watchlist holds at most one row per (game_title, store) pair, a
\* missing store filter included, and so no run processes a pair twice
C29_WatchlistUnique ==
    /\ \A r, q \in watchlist :
          (r.game_title = q.game_title /\ r.store = q.store) => r.id = q.id
    /\ SnapshotKeysDistinct

(***************************************************************************)
(* Scheduler.run_forever and stop (src/src/scheduler.py).  A cycle is one  *)
(* call of check_and_notify; it returns or raises an Exception.  stop()    *)
(* comes from another task while run_forever is suspended in an await.     *)
(***************************************************************************)
CHECK_INTERVAL_HOURS == 6
MaxCycles == 4

\* how a call of check_and_notify can end
CycleOutcomes == {"returned", "raised"}

\* a loop that does not look at self.running
WhileTrue(running) == TRUE

\* while self.running:
WhileRunning(running) == running

\* the code that runs while run_forever is not suspended
ScOthers == <<dbVars, rnVars, clVars, lwVars, mgVars, stVars, ntVars>>

\* run_forever up to its first await: self.running = True; asyncio.sleep(60)
ScStart ==
    /\ sc_pc = "new"
    /\ sc_running' = TRUE
    /\ sc_pc' = "first_sleep"
    /\ UNCHANGED <<ScOthers, sc_stopped, sc_cycles, sc_outcomes, sc_slept>>

\* an asyncio.sleep ends; the loop condition is tested and, if it holds,
\* check_and_notify is called
ScWake ==
    /\ sc_pc \in {"first_sleep", "sleep"}
    /\ WhileRunning(sc_running) => sc_cycles < MaxCycles
    /\ sc_slept' = IF sc_pc = "first_sleep" THEN 60 ELSE CHECK_INTERVAL_HOURS * 3600
    /\ sc_pc' = IF WhileRunning(sc_running) THEN "cycle" ELSE "returned"
    /\ sc_cycles' = IF WhileRunning(sc_running) THEN sc_cycles + 1 ELSE sc_cycles
    /\ UNCHANGED <<ScOthers, sc_running, sc_stopped, sc_outcomes>>

\* check_and_notify ends; an Exception is caught and printed; then
\* asyncio.sleep(self.interval_hours * 3600)
ScCycle ==
    /\ sc_pc = "cycle"
    /\ \E outcome \in CycleOutcomes : sc_outcomes' = Append(sc_outcomes, outcome)
    /\ sc_pc' = "sleep"
    /\ UNCHANGED <<ScOthers, sc_running, sc_stopped, sc_cycles, sc_slept>>

\* Scheduler.stop: self.running = False
ScStop ==
    /\ sc_pc \in {"first_sleep", "cycle", "sleep"}
    /\ ~sc_stopped
    /\ sc_running' = FALSE
    /\ sc_stopped' = TRUE
    /\ UNCHANGED <<ScOthers, sc_pc, sc_cycles, sc_outcomes, sc_slept>>

ScNext ==
    \/ ScStart
    \/ ScWake
    \/ ScCycle
    \/ ScStop

\* every sleep ends and every call of check_and_notify ends
ScFair == WF_vars(ScStart) /\ WF_vars(ScWake) /\ WF_vars(ScCycle)

SpecSched == Init /\ [][ScNext]_vars /\ ScFair

(***************************************************************************)
(* Properties of the scheduler (SpecSched)                                 *)
(***************************************************************************)
\* the step starts a cycle
CycleStarts == sc_cycles' = sc_cycles + 1 /\ sc_pc' = "cycle"

\* C30: a cycle that raised leaves the loop going: it sleeps the interval and,
\* unless stop() came, starts the next cycle; every cycle but the first
\* starts after a sleep of the interval; once stop() has set running to
\* false no cycle is started
C30_SchedulerResilient ==
    /\ [][/\ (sc_pc = "cycle" /\ sc_pc' # "cycle") => sc_pc' = "sleep"
          /\ (CycleStarts /\ sc_cycles > 0) => sc_slept' = CHECK_INTERVAL_HOURS * 3600
          /\ sc_stopped => sc_cycles' = sc_cycles
         ]_vars
    /\ \A n \in 1..(MaxCycles - 1) :
          (sc_cycles = n /\ Len(sc_outcomes) = n /\ sc_outcomes[n] = "raised")
              ~> (sc_cycles = n + 1 \/ sc_stopped)
    /\ \A n \in 1..(MaxCycles - 1) :
          (sc_cycles = n) ~> (sc_cycles = n + 1 \/ sc_stopped)

\* the loop went on after a cycle that raised, and ended after stop()
C30_Witness ==
    /\ sc_pc = "returned"
    /\ sc_stopped
    /\ sc_cycles = Len(sc_outcomes)
    /\ \E n \in 1..(Len(sc_outcomes) - 1) :
          sc_outcomes[n] = "raised" /\ sc_outcomes[n + 1] = "returned"

====
